---- MODULE Spec2Model ----
(***************************************************************************)
(* Job lifecycle of the store-monitoring report system.                    *)
(*                                                                         *)
(* State: the raw.reports table, the reports.json tracking file, the       *)
(* broker queue, and the position of every request handler, background    *)
(* task and Celery worker.  One action per SQL round trip of the code.     *)
(***************************************************************************)
EXTENDS Integers, Sequences, FiniteSets, TLC

\* ------------------------------------------------------------------------
\* Bounds of the model
\* ------------------------------------------------------------------------
MaxReports == 2
NumCallers == 2
MaxRuns == 2
MaxStatusUpdates == 1

ReportIds == 1..MaxReports
Runs == 1..MaxRuns
Callers == 1..NumCallers
NoId == 0

\* ------------------------------------------------------------------------
\* The job table: status values and artifact references
\* ------------------------------------------------------------------------
\* CHECK (status IN ('PENDING','RUNNING','COMPLETE','FAILED'))
Statuses == {"PENDING", "RUNNING", "COMPLETE", "FAILED"}
ActiveStatuses == {"PENDING", "RUNNING"}
TerminalStatuses == {"COMPLETE", "FAILED"}
\* "ABSENT" marks a report_id with no row in raw.reports.
Absent == "ABSENT"

\* A string is the sequence of its pieces: "file://reports/1.csv" is
\* file: / / reports / 1 .csv.  The url column is NULL (no piece) or a string.
NoUrl == <<>>
FileScheme == <<"file:", "/", "/">>
Slash == <<"/">>
ReportsSlash == <<"reports", "/">>
DotJson == <<".json">>
DotCsv == <<".csv">>
MkUrl(s, d, n, e) == s \o d \o n \o e

\* str.startswith, str.endswith and the `in` of strings
StartsWith(s, p) == Len(s) >= Len(p) /\ SubSeq(s, 1, Len(p)) = p
EndsWith(s, p) == Len(s) >= Len(p) /\ SubSeq(s, Len(s) - Len(p) + 1, Len(s)) = p
OccursAt(s, p, i) == i + Len(p) - 1 <= Len(s) /\ SubSeq(s, i, i + Len(p) - 1) = p
Contains(s, p) == \E i \in 1..Len(s) : OccursAt(s, p, i)

\* str.replace(old, new): every occurrence of old, found from the left
RECURSIVE ReplaceFrom(_, _, _, _)
ReplaceFrom(s, old, new, i) ==
    IF i > Len(s) THEN <<>>
    ELSE IF OccursAt(s, old, i) THEN new \o ReplaceFrom(s, old, new, i + Len(old))
    ELSE <<s[i]>> \o ReplaceFrom(s, old, new, i + 1)
Replace(s, old, new) == ReplaceFrom(s, old, new, 1)

\* str.split(sep)[-1]: what follows the last sep, the string itself without one
RECURSIVE LastPieceFrom(_, _, _, _)
LastPieceFrom(s, sep, i, start) ==
    IF i > Len(s) THEN SubSeq(s, start, Len(s))
    ELSE IF OccursAt(s, sep, i) THEN LastPieceFrom(s, sep, i + Len(sep), i + Len(sep))
    ELSE LastPieceFrom(s, sep, i + 1, start)
LastPiece(s, sep) == LastPieceFrom(s, sep, 1, 1)

\* internal_url = "file://" + str(reports_dir / f"{report_id}.csv"), with
\* reports_dir = Path("reports")
ArtifactUrl(id) == MkUrl(FileScheme, ReportsSlash, <<ToString(id)>>, DotCsv)

\* url values a client of PUT /reports/complete sends: none, or a reference
ClientUrls == {NoUrl, MkUrl(FileScheme, ReportsSlash, <<"0">>, DotJson)}

\* A row of raw.reports
Row(s, u) == [status |-> s, url |-> u]
AbsentRow == Row(Absent, NoUrl)

VARIABLES
    reports,            \* raw.reports: report_id -> row
    current_report_id,  \* reports.json: the tracked current report, or NoId
    queue,              \* broker queue "reports": report ids of the waiting messages
    cpc,                \* create_new_report callers: "idle" | "insert"
    bg,                 \* main.py background task per report
    rpc,                \* generate_report: position of each task run
    rid,                \* generate_report: the report_id each run was given
    updates,            \* PUT /reports/status and /reports/complete calls so far
    resp,               \* the last response of a trigger or status request
    db,                 \* raw.store_status, raw.menu_hours, raw.timezones
    engine,             \* the engine of the run: "minute_index" | "comprehensive"
    epc,                \* generate_store_report: position of the engine run
    max_utc,            \* generate_store_report: the anchor _max_utc returned
    stores,             \* generate_store_report: the list _stores returned
    pos,                \* generate_store_report: the entry of stores the loop is at
    rows,               \* generate_store_report: the rows built so far
    skipped,            \* generate_store_report: the entries whose _proc_store raised
    result,             \* generate_store_report: the return value and the csv file
    limit,              \* the time limit the run has passed: "none" | "soft" | "hard"
    loc                 \* a localization: the zone, the naive wall time, the result

jvars == <<reports, current_report_id, queue, cpc, bg, rpc, rid, updates, resp>>
evars == <<db, engine, epc, max_utc, stores, pos, rows, skipped, result, limit, loc>>
vars == <<reports, current_report_id, queue, cpc, bg, rpc, rid, updates, resp,
          db, engine, epc, max_utc, stores, pos, rows, skipped, result, limit, loc>>

Exists(id) == reports[id].status # Absent
IsActive(id) == reports[id].status \in ActiveStatuses
IsTerminal(id) == reports[id].status \in TerminalStatuses
ActiveIds == {id \in ReportIds : IsActive(id)}

\* generate_report_id: time_ns plus a random suffix, unique per call; created_at
\* grows with it, so ids are handed out in creation order.
FreshIds == {id \in ReportIds : ~Exists(id)}
HasFresh == FreshIds # {}
FreshId == CHOOSE id \in FreshIds : \A j \in FreshIds : id <= j

\* A response: who answered, the HTTP status (0 for a direct service call),
\* the report_id it names, its outcome or status text, and its url.
NoResp == [op |-> "none", code |-> 0, report_id |-> NoId, result |-> "none", url |-> NoUrl]
Resp(o, c, id, e) == [op |-> o, code |-> c, report_id |-> id, result |-> e, url |-> NoUrl]

\* The source tables before any load, and an engine that has not been called.
EmptyDb == [store_status |-> {}, menu_hours |-> {}, timezones |-> {}]
NoResult == [returned |-> FALSE, success |-> FALSE, file |-> <<>>]
NoLoc == [tz |-> "UTC", wall |-> 0, by |-> "none", out |-> 0]

EngineIdle ==
    /\ db = EmptyDb
    /\ engine = "minute_index"
    /\ epc = "idle"
    /\ max_utc = 0
    /\ stores = <<>>
    /\ pos = 1
    /\ rows = <<>>
    /\ skipped = {}
    /\ result = NoResult
    /\ limit = "none"
    /\ loc = NoLoc

Init ==
    /\ reports = [id \in ReportIds |-> AbsentRow]
    /\ current_report_id = NoId
    /\ queue = {}
    /\ cpc = [c \in Callers |-> "idle"]
    /\ bg = [id \in ReportIds |-> "none"]
    /\ rpc = [r \in Runs |-> "waiting"]
    /\ rid = [r \in Runs |-> NoId]
    /\ updates = 0
    /\ resp = NoResp
    /\ EngineIdle

\* ------------------------------------------------------------------------
\* ReportCRUD (app/database/crud.py).  ok = FALSE is the except branch: the
\* statement raised and the session was rolled back.
\* ------------------------------------------------------------------------
\* create_report: INSERT (report_id, status); an exception reaches the caller.
CrudCreateReport(tbl, id, status) == [tbl EXCEPT ![id] = Row(status, NoUrl)]

\* get_report_by_id: the row, or None (AbsentRow) when missing or on error.
CrudGetReportById(tbl, id, ok) == IF ok THEN tbl[id] ELSE AbsentRow

\* get_latest_pending_report: newest row with status PENDING or RUNNING, or
\* None (NoId) when there is none or the query raised.
CrudGetLatestPendingReport(tbl, ok) ==
    LET act == {id \in ReportIds : tbl[id].status \in {"PENDING", "RUNNING"}}
    IN IF ok /\ act # {} THEN CHOOSE id \in act : \A j \in act : j <= id ELSE NoId

\* update_report_status: overwrite the status of an existing row.
CrudUpdateReportStatus(tbl, id, new_status, ok) ==
    IF ok /\ tbl[id].status # Absent
    THEN [tbl EXCEPT ![id].status = new_status]
    ELSE tbl

\* set_report_status_and_url: overwrite the status, and the url when one is given.
CrudSetReportStatusAndUrl(tbl, id, status, url, ok) ==
    IF ok /\ tbl[id].status # Absent
    THEN [tbl EXCEPT ![id] = Row(status, IF url # NoUrl THEN url ELSE @.url)]
    ELSE tbl

\* ------------------------------------------------------------------------
\* Trigger, legacy server (main.py): insert without looking, then a
\* background task PENDING -> RUNNING -> COMPLETE.
\* ------------------------------------------------------------------------
\* INSERT INTO raw.reports (report_id, status) VALUES (%s, 'PENDING')
SqlInsertPending(tbl, id) == [tbl EXCEPT ![id] = Row("PENDING", NoUrl)]

\* UPDATE raw.reports SET status = ... WHERE report_id = %s; ok = FALSE: the
\* connection or the statement raised.
SqlUpdateStatus(tbl, id, status, ok) ==
    IF ok /\ tbl[id].status # Absent
    THEN [tbl EXCEPT ![id].status = status]
    ELSE tbl

\* POST /trigger_report: FastAPI's default status for the route is 200.
LegacyTriggerCode == 200

TriggerReportLegacy ==
    /\ HasFresh
    /\ \E ok \in BOOLEAN :
         IF ok
         THEN /\ reports' = SqlInsertPending(reports, FreshId)
              /\ bg' = [bg EXCEPT ![FreshId] = "queued"]
              /\ resp' = Resp("legacy", LegacyTriggerCode, FreshId, "created")
         ELSE /\ resp' = Resp("legacy", 500, NoId, "failed")
              /\ UNCHANGED <<reports, bg>>
    /\ UNCHANGED <<current_report_id, queue, cpc, rpc, rid, updates>>
    /\ UNCHANGED evars

\* process_report_background, first UPDATE: status = 'RUNNING'
BackgroundRunning(id) ==
    /\ bg[id] = "queued"
    /\ \E ok \in BOOLEAN :
         /\ reports' = SqlUpdateStatus(reports, id, "RUNNING", ok)
         /\ bg' = [bg EXCEPT ![id] = IF ok THEN "running" ELSE "error"]
    /\ UNCHANGED <<current_report_id, queue, cpc, rpc, rid, updates, resp>>
    /\ UNCHANGED evars

\* process_report_background, second UPDATE: status = 'COMPLETE', url untouched
BackgroundComplete(id) ==
    /\ bg[id] = "running"
    /\ \E ok \in BOOLEAN :
         /\ reports' = SqlUpdateStatus(reports, id, "COMPLETE", ok)
         /\ bg' = [bg EXCEPT ![id] = IF ok THEN "done" ELSE "error"]
    /\ UNCHANGED <<current_report_id, queue, cpc, rpc, rid, updates, resp>>
    /\ UNCHANGED evars

\* process_report_background, except branch: status = 'FAILED'; a second
\* failure is only logged.
BackgroundFailed(id) ==
    /\ bg[id] = "error"
    /\ \E ok \in BOOLEAN :
         reports' = SqlUpdateStatus(reports, id, "FAILED", ok)
    /\ bg' = [bg EXCEPT ![id] = "done"]
    /\ UNCHANGED <<current_report_id, queue, cpc, rpc, rid, updates, resp>>
    /\ UNCHANGED evars

\* GET /get_report: the status text for a stored status; the response model
\* has no url field.
LegacyStatusText(status) ==
    IF status \in {"PENDING", "RUNNING"} THEN "Running"
    ELSE IF status = "FAILED" THEN "Failed"
    ELSE IF status = "COMPLETE" THEN "Complete"
    ELSE status

LegacyGetReportOf(row, id) ==
    IF row.status = Absent
    THEN Resp("get_report", 404, NoId, "Report not found")
    ELSE Resp("get_report", 200, id, LegacyStatusText(row.status))

GetReportLegacy(id) ==
    /\ resp' = LegacyGetReportOf(reports[id], id)
    /\ UNCHANGED <<reports, current_report_id, queue, cpc, bg, rpc, rid, updates>>
    /\ UNCHANGED evars

\* ------------------------------------------------------------------------
\* Trigger, layered server: ReportController.trigger_report and
\* ReportService.create_new_report
\* ------------------------------------------------------------------------
\* The controller calls create_new_report(comprehensive); the method takes no
\* argument, the call raises TypeError, and the handler answers 500.
ControllerTriggerReport ==
    /\ resp' = Resp("controller", 500, NoId, "failed")
    /\ UNCHANGED <<reports, current_report_id, queue, cpc, bg, rpc, rid, updates>>
    /\ UNCHANGED evars

\* Whether can_create_new_report lets the creation go on: no active record found.
CanCreate(pending) == pending = NoId

\* can_create_new_report, called first by create_new_report: the read of the
\* active record.  A record found: CREATION_BLOCKED naming it.
CreateNewReportValidate(c) ==
    /\ cpc[c] = "idle"
    /\ \E ok \in BOOLEAN :
         LET pending == CrudGetLatestPendingReport(reports, ok)
         IN IF CanCreate(pending)
            THEN /\ cpc' = [cpc EXCEPT ![c] = "insert"]
                 /\ UNCHANGED resp
            ELSE /\ resp' = Resp("service", 0, pending, "blocked")
                 /\ UNCHANGED cpc
    /\ UNCHANGED <<reports, current_report_id, queue, bg, rpc, rid, updates>>
    /\ UNCHANGED evars

\* create_new_report after validation: insert PENDING, then name the report
\* in reports.json.  An insert that raises: CREATION_FAILED.
CreateNewReportInsert(c) ==
    /\ cpc[c] = "insert"
    /\ HasFresh
    /\ \E ok \in BOOLEAN :
         IF ok
         THEN /\ reports' = CrudCreateReport(reports, FreshId, "PENDING")
              /\ current_report_id' = FreshId
              /\ resp' = Resp("service", 0, FreshId, "created")
         ELSE /\ resp' = Resp("service", 0, NoId, "failed")
              /\ UNCHANGED <<reports, current_report_id>>
    /\ cpc' = [cpc EXCEPT ![c] = "idle"]
    /\ UNCHANGED <<queue, bg, rpc, rid, updates>>
    /\ UNCHANGED evars

\* ------------------------------------------------------------------------
\* The broker.  The worker started by celery_worker.py consumes queue
\* "reports".  No code of the repository publishes the task (task_routes
\* would send it to queue "celery", which that worker does not consume):
\* messages reach queue "reports" from outside, and may arrive again after a
\* delivery (at-least-once).
\* ------------------------------------------------------------------------
Publish(id) ==
    /\ id \notin queue
    /\ queue' = queue \cup {id}
    /\ UNCHANGED <<reports, current_report_id, cpc, bg, rpc, rid, updates, resp>>
    /\ UNCHANGED evars

\* ------------------------------------------------------------------------
\* The Celery task generate_report (app/tasks/report_tasks.py)
\* ------------------------------------------------------------------------
\* report_tasks.py imports ReportStatus from app.schemas.report, which does
\* not define it: its members are the four job states under their stored names.
ReportStatus ==
    [PENDING |-> "PENDING", RUNNING |-> "RUNNING",
     COMPLETE |-> "COMPLETE", FAILED |-> "FAILED"]

\* AfterLookup with the terminal test narrowed to COMPLETE.
AfterLookupCompleteOnly(rpt) ==
    IF rpt.status = Absent THEN "not_found"
    ELSE IF rpt.status = ReportStatus.COMPLETE THEN "skipped"
    ELSE IF rpt.status = ReportStatus.PENDING THEN "set_running"
    ELSE "engine"

\* Where a run goes after get_report_by_id, lines 26-51.
AfterLookup(rpt) ==
    IF rpt.status = Absent THEN "not_found"
    ELSE IF rpt.status \in {ReportStatus.COMPLETE, ReportStatus.FAILED} THEN "skipped"
    ELSE IF rpt.status = ReportStatus.PENDING THEN "set_running"
    ELSE "engine"

RunReturned == {"not_found", "skipped", "returned"}

\* A delivery starts a run: look the record up; return at once when it is
\* missing or terminal.
\* The idle worker with the lowest number takes the delivery.
GenerateReportStart(r, id) ==
    /\ rpc[r] = "waiting"
    /\ IF r = 1 THEN TRUE ELSE rpc[r - 1] # "waiting"
    /\ id \in queue
    /\ queue' = queue \ {id}
    /\ rid' = [rid EXCEPT ![r] = id]
    /\ \E ok \in BOOLEAN :
         rpc' = [rpc EXCEPT ![r] = AfterLookup(CrudGetReportById(reports, id, ok))]
    /\ UNCHANGED <<reports, current_report_id, cpc, bg, updates, resp>>
    /\ UNCHANGED evars

\* rpt.status == PENDING: set_report_status_and_url(RUNNING); the result of
\* the call is not looked at.
GenerateReportSetRunning(r) ==
    /\ rpc[r] = "set_running"
    /\ \E ok \in BOOLEAN :
         reports' = CrudSetReportStatusAndUrl(reports, rid[r], ReportStatus.RUNNING, NoUrl, ok)
    /\ rpc' = [rpc EXCEPT ![r] = "engine"]
    /\ UNCHANGED <<current_report_id, queue, cpc, bg, rid, updates, resp>>
    /\ UNCHANGED evars

\* MinuteIndexReportService(db).generate_store_report(report_id): returns
\* success with the file path, returns failure, or the constructor raises.
EngineOutcomes == {"succeeded", "failed", "raised"}

GenerateReportEngine(r) ==
    /\ rpc[r] = "engine"
    /\ \E out \in EngineOutcomes : rpc' = [rpc EXCEPT ![r] = out]
    /\ UNCHANGED <<reports, current_report_id, queue, cpc, bg, rid, updates, resp>>
    /\ UNCHANGED evars

\* The status and url a run writes for each engine outcome, lines 56-89.
FinalStatus(out) ==
    IF out = "succeeded" THEN ReportStatus.COMPLETE ELSE ReportStatus.FAILED
FinalUrl(out, id) == IF out = "succeeded" THEN ArtifactUrl(id) ELSE NoUrl

\* The last write of a run, then its return (or re-raise).
GenerateReportFinish(r) ==
    /\ rpc[r] \in EngineOutcomes
    /\ \E ok \in BOOLEAN :
         reports' = CrudSetReportStatusAndUrl(reports, rid[r], FinalStatus(rpc[r]),
                                              FinalUrl(rpc[r], rid[r]), ok)
    /\ rpc' = [rpc EXCEPT ![r] = "returned"]
    /\ UNCHANGED <<current_report_id, queue, cpc, bg, rid, updates, resp>>
    /\ UNCHANGED evars

\* The task has returned; the worker process takes the next delivery.
WorkerReady(r) ==
    /\ rpc[r] \in RunReturned
    /\ rpc' = [rpc EXCEPT ![r] = "waiting"]
    /\ rid' = [rid EXCEPT ![r] = NoId]
    /\ UNCHANGED <<reports, current_report_id, queue, cpc, bg, updates, resp>>
    /\ UNCHANGED evars

\* ------------------------------------------------------------------------
\* Status-update operations of the layered server
\* ------------------------------------------------------------------------
ValidStatuses == {"PENDING", "RUNNING", "COMPLETE", "FAILED"}
RequestStatuses == ValidStatuses \cup {"BOGUS"}

\* _clear_current_report_json runs after an update to COMPLETE or FAILED,
\* whichever report the file names.
JsonAfterUpdate(cur, tbl, id, status) ==
    IF tbl[id].status # Absent /\ status \in {"COMPLETE", "FAILED"} THEN NoId ELSE cur

\* PUT /reports/status -> ReportService.update_report_status
UpdateReportStatus(id, new_status) ==
    /\ updates < MaxStatusUpdates
    /\ updates' = updates + 1
    /\ IF new_status \in ValidStatuses
       THEN /\ reports' = CrudUpdateReportStatus(reports, id, new_status, TRUE)
            /\ current_report_id' = JsonAfterUpdate(current_report_id, reports, id, new_status)
       ELSE UNCHANGED <<reports, current_report_id>>
    /\ UNCHANGED <<queue, cpc, bg, rpc, rid, resp>>
    /\ UNCHANGED evars

\* PUT /reports/complete -> ReportService.set_report_status_and_url
SetReportStatusAndUrl(id, status, url) ==
    /\ updates < MaxStatusUpdates
    /\ updates' = updates + 1
    /\ IF status \in ValidStatuses
       THEN /\ reports' = CrudSetReportStatusAndUrl(reports, id, status, url, TRUE)
            /\ current_report_id' = JsonAfterUpdate(current_report_id, reports, id, status)
       ELSE UNCHANGED <<reports, current_report_id>>
    /\ UNCHANGED <<queue, cpc, bg, rpc, rid, resp>>
    /\ UNCHANGED evars

\* ------------------------------------------------------------------------
\* get_status of the layered server
\* ------------------------------------------------------------------------
PublicUrl(filename) == <<"/", "files", "/">> \o ReportsSlash \o filename

\* The url translation inside get_report_with_url_logic, lines 357-369: a
\* file:// reference under reports/ becomes /files/reports/<file>, .json
\* renamed .csv; anything else is exposed as stored.
ExposedUrl(url) ==
    IF url # NoUrl /\ StartsWith(url, FileScheme)
    THEN LET file_path == Replace(url, FileScheme, <<>>)
         IN IF Contains(file_path, ReportsSlash)
            THEN LET filename == LastPiece(file_path, ReportsSlash)
                 IN PublicUrl(IF EndsWith(filename, DotJson)
                              THEN Replace(filename, DotJson, DotCsv)
                              ELSE filename)
            ELSE url
    ELSE url

\* UrlResolver.to_public (app/utils/url_resolver.py): the file name is what
\* follows the last "/" of any file:// reference.
ToPublic(internal_url) ==
    IF internal_url = NoUrl THEN internal_url
    ELSE IF StartsWith(internal_url, FileScheme)
    THEN LET file_path == Replace(internal_url, FileScheme, <<>>)
             filename == LastPiece(file_path, Slash)
         IN PublicUrl(IF EndsWith(filename, DotJson)
                      THEN Replace(filename, DotJson, DotCsv)
                      ELSE filename)
    ELSE internal_url

\* ReportService.get_report_with_url_logic: display status and exposed url
DisplayStatus(status) ==
    IF status \in {"PENDING", "RUNNING"} THEN "RUNNING"
    ELSE IF status = "FAILED" THEN "FAILED"
    ELSE IF status = "COMPLETE" THEN "COMPLETED"
    ELSE status

GetReportWithUrlLogic(row) ==
    [status |-> DisplayStatus(row.status),
     url |-> IF row.status = "COMPLETE" THEN ExposedUrl(row.url) ELSE NoUrl]

\* ReportController.get_report_status builds ReportStatusResponse(status,
\* report_id, url); the schema declares status and report_id only, so the
\* url is not part of the response.
ControllerGetReportStatus(row) ==
    [status |-> GetReportWithUrlLogic(row).status, url |-> NoUrl]

\* ------------------------------------------------------------------------
\* The report engine (app/services/compute_Algo.py)
\* ------------------------------------------------------------------------
\* An instant is a whole number of seconds since a Monday 00:00:00 UTC; a
\* time zone is a fixed offset from UTC in seconds.  A row of
\* raw.store_status is [store_id, ts, status], a row of raw.menu_hours is
\* [store_id, day, start, end] with times of day <<h, m, s>>, and a row of
\* raw.timezones is [store_id, timezone_str].
Max(a, b) == IF a >= b THEN a ELSE b
Min(a, b) == IF a <= b THEN a ELSE b

\* pytz.timezone(tz_str or "America/Chicago"); an unknown name falls back
\* to UTC.  America/Chicago is UTC-5 on the dates drawn here.
TzOffset(tz_str) ==
    IF tz_str = "America/Chicago" THEN -18000
    ELSE IF tz_str = "Asia/Kolkata" THEN 19800
    ELSE 0

\* The three bands and the pre-window buffer, in minute indices.
H == <<1, 61>>
D == <<1, 1441>>
W == <<1, 10081>>
LoadMinutes == 10080 + 1440

\* _floor_min and _ceil_min on the wall clock of a zone
FloorMin(t, off) == t - ((t + off) % 60)
CeilMin(t, off) == IF (t + off) % 60 = 0 THEN t ELSE FloorMin(t + 60, off)

\* int(d) truncates toward zero
TruncDiv(a, b) == IF a >= 0 THEN a \div b ELSE -((-a) \div b)

\* _idx: 1 is the minute of now_local, larger is older, the future is 1.
Idx(dt_local, now_local) == Max(1, TruncDiv(now_local - dt_local, 60) + 1)

\* _overlap of two half-open intervals
Overlap(a, b) == Max(0, Min(a[2], b[2]) - Max(a[1], b[1]))

\* _clamp
Clamp(v, lo, hi) == Max(lo, Min(hi, v))

\* _map_status: lower-cased and stripped; None for any other text
None == "None"
MapStatus(s) ==
    IF s \in {"active", "ACTIVE", " active "} THEN "active"
    ELSE IF s \in {"inactive", "INACTIVE"} THEN "inactive"
    ELSE None

\* list.sort() of a set of integers within lo..hi
RECURSIVE SortAsc(_, _, _)
SortAsc(S, lo, hi) ==
    IF S = {} THEN <<>>
    ELSE IF lo = hi THEN <<lo>>
    ELSE LET mid == (lo + hi) \div 2
         IN SortAsc({k \in S : k <= mid}, lo, mid) \o SortAsc({k \in S : k > mid}, mid + 1, hi)

Reverse(s) == [i \in 1..Len(s) |-> s[Len(s) + 1 - i]]

\* ORDER BY timestamp_utc ASC over the rows of a store from `left` on; the
\* table holds one row per store and timestamp.
Fetch(tbl, store_id, left, right) ==
    LET mine == {r \in tbl : r.store_id = store_id /\ r.ts >= left}
        ts == SortAsc({r.ts : r \in mine}, left, right)
    IN [i \in 1..Len(ts) |-> CHOOSE r \in mine : r.ts = ts[i]]

\* Two per_min maps joined with the entries of the first kept in every minute
KeepFirst(a, b) ==
    [k \in DOMAIN a \cup DOMAIN b |-> IF k \in DOMAIN a THEN a[k] ELSE b[k]]

\* The per_min maps of two consecutive stretches of the fetched rows joined:
\* a later row replaces the entry of its minute when t > per_min[k][0].
KeepLatest(a, b) ==
    [k \in DOMAIN a \cup DOMAIN b |->
        IF k \in DOMAIN b /\ (k \notin DOMAIN a \/ b[k].t > a[k].t) THEN b[k] ELSE a[k]]

\* The per_min loop of _load_polls over the fetched rows lo..hi, in order;
\* a row whose status _map_status does not know is passed over.
EmptyMap == [k \in {} |-> None]
RECURSIVE PerMin(_, _, _, _, _)
PerMin(fetched, lo, hi, off, now_local) ==
    IF lo > hi THEN EmptyMap
    ELSE IF lo = hi
    THEN LET r == fetched[lo]
         IN IF MapStatus(r.status) = None THEN EmptyMap
            ELSE [k \in {Idx(FloorMin(r.ts, off), now_local)} |->
                     [t |-> r.ts, m |-> MapStatus(r.status)]]
    ELSE LET mid == (lo + hi) \div 2
         IN KeepLatest(PerMin(fetched, lo, mid, off, now_local),
                       PerMin(fetched, mid + 1, hi, off, now_local))

\* _load_polls after the query: one (k, status) per minute index, sorted by
\* k descending.
NormalizePolls(fetched, off, now_local) ==
    LET per_min == PerMin(fetched, 1, Len(fetched), off, now_local)
        ks == Reverse(SortAsc(DOMAIN per_min, 1, LoadMinutes + 1))
    IN [i \in 1..Len(ks) |-> <<ks[i], per_min[ks[i]].m>>]

\* _load_polls: the rows of the store at or after now_local - 11,520 minutes
LoadPolls(tbl, store_id, off, now_local) ==
    LET left == now_local - LoadMinutes * 60
    IN NormalizePolls(Fetch(tbl, store_id, left, now_local + 59), off, now_local)

\* _parse_time: a well-formed HH:MM:SS as seconds of the day, else 00:00:00
ParseTime(s) ==
    IF s[1] \in 0..23 /\ s[2] \in 0..59 /\ s[3] \in 0..59
    THEN s[1] * 3600 + s[2] * 60 + s[3]
    ELSE 0

DaySeconds == 86400
\* .date() and .weekday() of a wall clock; day 0 of the epoch is a Monday.
LocalDate(t, off) == (t + off) \div DaySeconds
Weekday(date) == date % 7
\* _tzloc(tz, datetime.combine(date, time)): the instant of a wall time
Combine(date, tod, off) == date * DaySeconds + tod - off

\* A list of intervals in sorted order: ans.sort()
PairLess(p, q) == p[1] < q[1] \/ (p[1] = q[1] /\ p[2] < q[2])
RECURSIVE SortPairs(_)
SortPairs(S) ==
    IF S = {} THEN <<>>
    ELSE LET p == CHOOSE p \in S : \A q \in S \ {p} : PairLess(p, q)
         IN <<p>> \o SortPairs(S \ {p})

\* _merge: the loop over ivals[1:], out[-1] extended when s <= le
RECURSIVE MergeFrom(_, _, _)
MergeFrom(ivals, i, out) ==
    IF i > Len(ivals) THEN out
    ELSE LET last == out[Len(out)]
             cur == ivals[i]
         IN IF cur[1] <= last[2]
            THEN MergeFrom(ivals, i + 1,
                     [out EXCEPT ![Len(out)] = <<last[1], Max(last[2], cur[2])>>])
            ELSE MergeFrom(ivals, i + 1, Append(out, cur))

Merge(ivals) == IF ivals = <<>> THEN <<>> ELSE MergeFrom(ivals, 2, <<ivals[1]>>)

\* RowIntervals without the overnight branch: every entry is (start, end)
\* on its own date.
RowIntervalsSameDay(row, cur, off, now_local) ==
    LET a == Idx(FloorMin(Combine(cur, ParseTime(row.start), off), off), now_local)
        b == Idx(CeilMin(Combine(cur, ParseTime(row.end), off), off), now_local)
    IN IF a > b THEN {<<b, a>>} ELSE {}

\* The intervals one schedule row gives on one local date, lines 249-273:
\* (b, a) when a > b; an entry with end <= start is split at the end of the
\* day into (start, 23:59:59 rounded up) and (next midnight, end next day).
RowIntervals(row, cur, off, now_local) ==
    LET s_t == ParseTime(row.start)
        e_t == ParseTime(row.end)
        s_dt == Combine(cur, s_t, off)
        e_dt == Combine(cur, e_t, off)
        eod == Combine(cur, 23 * 3600 + 59 * 60 + 59, off)
        sod == Combine(cur + 1, 0, off)
        e2 == Combine(cur + 1, e_t, off)
        a == Idx(FloorMin(s_dt, off), now_local)
        Seg(lo, hi) == IF hi > lo THEN {<<lo, hi>>} ELSE {}
    IN IF e_t <= s_t
       THEN Seg(Idx(CeilMin(eod, off), now_local), a)
            \cup Seg(Idx(CeilMin(e2, off), now_local), Idx(FloorMin(sod, off), now_local))
       ELSE Seg(Idx(CeilMin(e_dt, off), now_local), a)

\* _build_bh: 24x7 without schedule rows; else the rows of each weekday on
\* the local dates now - 8 days .. now + 1 day, sorted and merged.  ans is
\* held as a set: a repeated interval merges into itself.
BuildBh(tbl, store_id, off, now_local) ==
    LET sched == {r \in tbl : r.store_id = store_id}
        start_date == LocalDate(now_local - 8 * DaySeconds, off)
        end_date == LocalDate(now_local + DaySeconds, off)
        OnDate(cur) == UNION {RowIntervals(r, cur, off, now_local) :
                                r \in {q \in sched : q.day = Weekday(cur)}}
        ans == UNION {OnDate(cur) : cur \in start_date..end_date}
    IN IF sched = {} THEN <<<<1, 10081>>>> ELSE Merge(SortPairs(ans))

\* The last loop of _spans over the sorted segments lo..hi: a segment that
\* starts where the previous one ends, with the same status, extends it.
RECURSIVE Coalesce(_, _, _)
Coalesce(segs, lo, hi) ==
    IF lo > hi THEN <<>>
    ELSE IF lo = hi THEN <<segs[lo]>>
    ELSE LET mid == (lo + hi) \div 2
             l == Coalesce(segs, lo, mid)
             r == Coalesce(segs, mid + 1, hi)
             x == l[Len(l)]
             y == r[1]
         IN IF x[3] = y[3] /\ x[2] = y[1]
            THEN SubSeq(l, 1, Len(l) - 1) \o <<<<x[1], y[2], x[3]>>>> \o Tail(r)
            ELSE l \o r

\* min(list, key=k) of a list of polls with distinct k
MinByK(ps) == CHOOSE p \in {ps[i] : i \in 1..Len(ps)} : \A i \in 1..Len(ps) : p[1] <= ps[i][1]

\* A seed taken from the oldest poll at or before the window start
SeedFarthest(polls, w) ==
    LET pre == SelectSeq(polls, LAMBDA p : p[1] >= w[2] - 1)
    IN IF pre # <<>>
       THEN (CHOOSE p \in {pre[i] : i \in 1..Len(pre)} : \A i \in 1..Len(pre) : p[1] >= pre[i][1])[2]
       ELSE "inactive"

\* _spans, lines 310-318: the seed is the status of the poll nearest to the
\* window start among those at k >= start_k, else of the newest in-window
\* poll, else "inactive".
Seed(polls, w) ==
    LET start_k == w[2] - 1
        pre == SelectSeq(polls, LAMBDA p : p[1] >= start_k)
        inside == SelectSeq(polls, LAMBDA p : w[1] <= p[1] /\ p[1] < w[2])
    IN IF pre # <<>> THEN MinByK(pre)[2]
       ELSE IF inside # <<>> THEN MinByK(inside)[2]
       ELSE "inactive"

\* A walk in which each stretch [k, prev_k) takes the status of the newer poll
SpansCarryBack(polls, w) ==
    LET start_k == w[2] - 1
        win == SelectSeq(polls, LAMBDA p : w[1] <= p[1] /\ p[1] < w[2])
        n == Len(win)
        walk == [i \in 1..n |->
                    IF i = 1 THEN <<Min(win[1][1], start_k), Max(win[1][1], start_k), win[1][2]>>
                    ELSE <<win[i][1], win[i - 1][1], win[i][2]>>]
        body == SelectSeq(walk, LAMBDA g : g[1] < g[2])
        tail == IF w[1] < win[n][1] THEN <<<<w[1], win[n][1], win[n][2]>>>> ELSE <<>>
        segs == tail \o Reverse(body)
    IN IF win = <<>> THEN <<<<w[1], w[2], "inactive">>>>
       ELSE Coalesce(segs, 1, Len(segs))

\* _spans: the walk from start_k = 10080 down the in-window polls, each
\* stretch [k, prev_k) taking the status of the older poll, then [1, prev_k).
\* polls is sorted by k descending, so sorted(win, key=-k) is win and
\* sorted(segs) is the tail followed by the walk in reverse.
Spans(polls, w) ==
    LET start_k == w[2] - 1
        win == SelectSeq(polls, LAMBDA p : w[1] <= p[1] /\ p[1] < w[2])
        seed == Seed(polls, w)
        n == Len(win)
        walk == [i \in 1..n |->
                    IF i = 1 THEN <<Min(win[1][1], start_k), Max(win[1][1], start_k), seed>>
                    ELSE <<win[i][1], win[i - 1][1], win[i - 1][2]>>]
        body == SelectSeq(walk, LAMBDA g : g[1] < g[2])
        tail == IF w[1] < win[n][1] THEN <<<<w[1], win[n][1], win[n][2]>>>> ELSE <<>>
        segs == tail \o Reverse(body)
    IN IF polls = <<>> THEN <<<<w[1], w[2], "inactive">>>>
       ELSE IF win = <<>> THEN <<<<w[1], w[2], seed>>>>
       ELSE Coalesce(segs, 1, Len(segs))

Bands == {"H", "D", "W"}
\* Bands that follow one another instead of sharing the start index 1
BandAfterBand(X) == IF X = "H" THEN H ELSE IF X = "D" THEN <<61, 1441>> ELSE <<1441, 10081>>

Band(X) == IF X = "H" THEN H ELSE IF X = "D" THEN D ELSE W
Zero == [X \in Bands |-> 0]

\* A sweep that moves both pointers at every step
SweepNextBoth(bh, spans, i, j) == <<i + 1, j + 1>>

\* _sweep, lines 364-367: the pointer of the interval that ends first moves
\* on, both when the two end together.
SweepNext(bh, spans, i, j) ==
    LET be == bh[i][2]
        se == spans[j][2]
    IN <<IF be <= se THEN i + 1 ELSE i, IF se <= be THEN j + 1 ELSE j>>

\* The number of passes of the while loop of _sweep from positions i, j
RECURSIVE SweepSteps(_, _, _, _)
SweepSteps(bh, spans, i, j) ==
    IF i > Len(bh) \/ j > Len(spans) THEN 0
    ELSE LET n == SweepNext(bh, spans, i, j)
         IN 1 + SweepSteps(bh, spans, n[1], n[2])

\* _sweep: the two-pointer loop from positions i, j with the sums so far
RECURSIVE SweepFrom(_, _, _, _, _)
SweepFrom(bh, spans, i, j, U) ==
    IF i > Len(bh) \/ j > Len(spans) THEN U
    ELSE LET bs == bh[i][1]
             be == bh[i][2]
             ss == spans[j][1]
             se == spans[j][2]
             iv == <<Max(bs, ss), Min(be, se)>>
             add == iv[1] < iv[2] /\ spans[j][3] = "active"
             U2 == IF add
                   THEN [X \in Bands |-> U[X] + Overlap(iv, Band(X))]
                   ELSE U
             n == SweepNext(bh, spans, i, j)
         IN SweepFrom(bh, spans, n[1], n[2], U2)

Sweep(bh, spans) == SweepFrom(bh, spans, 1, 1, Zero)

\* Sum(s): sum(... for b in bh)
RECURSIVE Sum(_)
Sum(s) == IF s = <<>> THEN 0 ELSE Head(s) + Sum(Tail(s))

\* Downtime kept in whole hours only.
DowntimeWholeHours(b, u) == (b - u) - ((b - u) % 60)

\* D_X = B_X - U_X
Downtime(b, u) == b - u

\* _proc_store: None without polls, else the row of the store.  The fields
\* are the minutes before unit conversion; timezone and now_s as stored.
NoRow == [store_id |-> 0, timezone |-> "", now_s |-> 0,
          B |-> Zero, U |-> Zero, Dn |-> Zero]
ProcStore(tables, store_id, tz_str, now_utc) ==
    LET off == TzOffset(tz_str)
        now_local == FloorMin(now_utc, off)
        polls == LoadPolls(tables.store_status, store_id, off, now_local)
        bh == BuildBh(tables.menu_hours, store_id, off, now_local)
        B == [X \in Bands |-> Sum([i \in 1..Len(bh) |-> Overlap(bh[i], Band(X))])]
        spans == Spans(polls, W)
        raw == Sweep(bh, spans)
        U == [X \in Bands |-> Clamp(raw[X], 0, B[X])]
        Dn == [X \in Bands |-> Downtime(B[X], U[X])]
    IN IF polls = <<>> THEN NoRow
       ELSE [store_id |-> store_id, timezone |-> tz_str, now_s |-> now_local,
             B |-> B, U |-> U, Dn |-> Dn]

\* round(minutes / 60.0, 2) in hundredths of an hour; 5m/3 is never a tie.
Hours2(m) == (10 * m + 3) \div 6

\* One line of _save_csv: minutes for the hour band, hours for day and week
CsvRow(r) ==
    [store_id |-> r.store_id,
     uptime |-> <<r.U["H"], Hours2(r.U["D"]), Hours2(r.U["W"])>>,
     downtime |-> <<r.Dn["H"], Hours2(r.Dn["D"]), Hours2(r.Dn["W"])>>]

\* ------------------------------------------------------------------------
\* The source tables an engine run is given
\* ------------------------------------------------------------------------
MaxStores == 2
MaxPolls == 2
StoreIds == 1..MaxStores

\* Anchors: a Monday 12:00:00 UTC and a Wednesday 00:00:00 UTC
MondayNoon == 14 * DaySeconds + 12 * 3600
WednesdayMidnight == 16 * DaySeconds
Anchors == {MondayNoon, WednesdayMidnight}

\* Ages of the polls in seconds before the anchor: the anchor itself, two
\* samples of one minute, the last minute of the week window, the first of
\* the buffer, and one older than the buffer.
PollAges == {0, 1780, 1800, 10079 * 60, 10080 * 60, 12000 * 60}
PollStatuses == {"active", "inactive"}
PollSets(store_id, anchor) ==
    LET one == {[store_id |-> store_id, ts |-> anchor - a, status |-> s] :
                   a \in PollAges, s \in PollStatuses}
               \cup {[store_id |-> store_id, ts |-> anchor - 1800, status |-> "closed"]}
    IN {ps \in SUBSET one : /\ Cardinality(ps) <= MaxPolls
                            /\ \A p, q \in ps : p.ts = q.ts => p = q}

\* One poll every 10 minutes over the 10,080 minutes before the anchor
WeekOfPolls(store_id, anchor, status) ==
    {[store_id |-> store_id, ts |-> anchor - 600 * i, status |-> status] : i \in 0..1007}

\* Schedules: the same hours every day, or one entry for Monday
Daily(store_id, start, end) ==
    {[store_id |-> store_id, day |-> d, start |-> start, end |-> end] : d \in 0..6}
Overnight(store_id) == Daily(store_id, <<22, 0, 0>>, <<2, 0, 0>>)
AllDay(store_id) == Daily(store_id, <<0, 0, 0>>, <<23, 59, 59>>)
MondayShift(store_id) ==
    {[store_id |-> store_id, day |-> 0, start |-> <<9, 0, 0>>, end |-> <<17, 30, 0>>]}

\* raw.timezones has no key: a store has no row, one row (the name may be
\* one pytz does not know), or several rows.
TzRow(store_id, tz_str) == [store_id |-> store_id, timezone_str |-> tz_str]

\* The schedule and zone rows of the first store
Settings(store_id) ==
    {<<{}, {}>>,
     <<{}, {TzRow(store_id, "America/Chicago"), TzRow(store_id, "Asia/Kolkata")}>>,
     <<AllDay(store_id), {TzRow(store_id, "UTC")}>>,
     <<Overnight(store_id), {TzRow(store_id, "Asia/Kolkata")}>>,
     <<MondayShift(store_id), {TzRow(store_id, "Mars/Phobos")}>>}

Db(st, mh, tz) == [store_status |-> st, menu_hours |-> mh, timezones |-> tz]
Join(d, e) == Db(d.store_status \cup e.store_status, d.menu_hours \cup e.menu_hours,
                 d.timezones \cup e.timezones)

\* What the tables hold for the first store: every combination of the above.
FirstStore(anchor) ==
    {Db(ps, st[1], st[2]) : ps \in PollSets(1, anchor), st \in Settings(1)}

\* What they hold for each further store: nothing, one active poll at the
\* anchor, or an inactive poll half an hour before it and overnight hours.
OtherStore(store_id, anchor) ==
    {EmptyDb,
     Db({[store_id |-> store_id, ts |-> anchor, status |-> "active"]}, {},
        {TzRow(store_id, "UTC")}),
     Db({[store_id |-> store_id, ts |-> anchor - 1800, status |-> "inactive"]},
        Overnight(store_id), {})}

RECURSIVE OtherStores(_, _)
OtherStores(n, anchor) ==
    IF n < 2 THEN {EmptyDb}
    ELSE {Join(d, e) : d \in OtherStore(n, anchor), e \in OtherStores(n - 1, anchor)}

\* A store polled every 10 minutes for the whole week, always active, open
\* 24x7 or 22:00-02:00, in UTC, anchored at Monday noon.
WeekStores ==
    {Db(WeekOfPolls(1, MondayNoon, "active"), mh, {TzRow(1, "UTC")}) :
        mh \in {{}, Overnight(1)}}

\* Store 1 polled inactive at 11:00 and active at 11:30, store 2 polled at
\* the anchor 12:00; both open 24x7 in UTC.
MidHourTransition ==
    Db({[store_id |-> 1, ts |-> MondayNoon - 3600, status |-> "inactive"],
        [store_id |-> 1, ts |-> MondayNoon - 1800, status |-> "active"],
        [store_id |-> 2, ts |-> MondayNoon, status |-> "active"]},
       {}, {TzRow(1, "UTC"), TzRow(2, "UTC")})

\* Store 1 open on Monday 09:00-17:30 in UTC, polled inactive at 09:00 and
\* active at the anchor 12:00.
ShiftStartsAtPoll ==
    Db({[store_id |-> 1, ts |-> MondayNoon - 3 * 3600, status |-> "inactive"],
        [store_id |-> 1, ts |-> MondayNoon, status |-> "active"]},
       MondayShift(1), {TzRow(1, "UTC")})

Databases ==
    WeekStores \cup {MidHourTransition, ShiftStartsAtPoll} \cup
    UNION {{Join(d, e) : d \in FirstStore(anchor), e \in OtherStores(MaxStores, anchor)} :
              anchor \in Anchors}

\* ------------------------------------------------------------------------
\* generate_store_report, lines 19-57
\* ------------------------------------------------------------------------
\* _max_utc: SELECT MAX(timestamp_utc); the table is not empty here.
MaxUtc(tbl) == CHOOSE t \in {r.ts : r \in tbl} : \A r \in tbl : r.ts <= t

\* The rows of _stores: SELECT DISTINCT store_id, COALESCE(timezone_str,
\* 'America/Chicago') over store_status LEFT JOIN timezones.
StoreRows(tables) ==
    LET ids == {r.store_id : r \in tables.store_status}
        zones(id) == {t.timezone_str : t \in {x \in tables.timezones : x.store_id = id}}
    IN UNION {IF zones(id) = {} THEN {<<id, "America/Chicago">>}
              ELSE {<<id, z>> : z \in zones(id)} : id \in ids}

\* generate_report passes max_stores = 50_000.
MaxStoresArg == 50000

\* _stores(limit): LIMIT n without ORDER BY returns any n of the rows in
\* any order.
Stores(tables, n) ==
    LET all == StoreRows(tables)
        len == Min(n, Cardinality(all))
    IN {q \in [1..len -> all] : \A i, j \in 1..len : q[i] = q[j] => i = j}

\* csv.writer over rows, in the order of rows
CsvFile(rs) == [i \in 1..Len(rs) |-> CsvRow(rs[i])]

\* An exception of _proc_store leaves the loop body without a return.
PerStoreNoExcept(raised) == IF raised THEN "propagate" ELSE "append"

\* try: r = _proc_store(...) / except Exception: continue, lines 32-38
PerStoreExcept(raised) == IF raised THEN "continue" ELSE "append"

Failure == [returned |-> TRUE, success |-> FALSE, file |-> <<>>]

\* max_utc = self._max_utc(); ValueError on an empty table goes to the
\* outer except, which returns success False.  _get_max_timestamp_utc of the
\* comprehensive engine does the same with an AttributeError.
EngineMaxUtc ==
    /\ epc = "called"
    /\ IF db.store_status = {}
       THEN /\ result' = Failure
            /\ epc' = "returned"
            /\ UNCHANGED max_utc
       ELSE /\ max_utc' = MaxUtc(db.store_status)
            /\ epc' = "stores"
            /\ UNCHANGED result
    /\ UNCHANGED <<loc, db, engine, stores, pos, rows, skipped, limit>>
    /\ UNCHANGED jvars

\* stores = self._stores(max_stores)
EngineStores ==
    /\ engine = "minute_index"
    /\ epc = "stores"
    /\ \E q \in Stores(db, MaxStoresArg) : stores' = q
    /\ pos' = 1
    /\ epc' = "loop"
    /\ UNCHANGED <<loc, db, engine, max_utc, rows, skipped, result, limit>>
    /\ UNCHANGED jvars

\* One pass of the loop body: the row is appended when there is one.
EngineProcStore ==
    /\ engine = "minute_index"
    /\ epc = "loop"
    /\ pos <= Len(stores)
    /\ \E raised \in BOOLEAN :
         LET todo == PerStoreExcept(raised)
             r == ProcStore(db, stores[pos][1], stores[pos][2], max_utc)
         IN /\ rows' = IF todo = "append" /\ r # NoRow THEN Append(rows, r) ELSE rows
            /\ skipped' = IF todo = "append" THEN skipped ELSE skipped \cup {pos}
            /\ IF todo = "propagate"
               THEN result' = Failure /\ epc' = "returned" /\ UNCHANGED pos
               ELSE pos' = pos + 1 /\ UNCHANGED <<result, epc>>
    /\ UNCHANGED <<loc, db, engine, max_utc, stores, limit>>
    /\ UNCHANGED jvars

\* _save_json, _save_csv and the return; a failed write goes to the outer
\* except.
EngineSave ==
    /\ engine = "minute_index"
    /\ epc = "loop"
    /\ pos > Len(stores)
    /\ \E ok \in BOOLEAN :
         result' = IF ok THEN [returned |-> TRUE, success |-> TRUE, file |-> CsvFile(rows)]
                   ELSE Failure
    /\ epc' = "returned"
    /\ UNCHANGED <<loc, db, engine, max_utc, stores, pos, rows, skipped, limit>>
    /\ UNCHANGED jvars

\* Back in generate_report: result.get("success") picks the branch.
EngineReturn ==
    /\ engine = "minute_index"
    /\ epc = "returned"
    /\ \E r \in Runs :
         /\ rpc[r] = "engine"
         /\ rpc' = [rpc EXCEPT ![r] = IF result.success THEN "succeeded" ELSE "failed"]
    /\ epc' = "idle"
    /\ UNCHANGED <<loc, db, engine, max_utc, stores, pos, rows, skipped, result, limit>>
    /\ UNCHANGED <<reports, current_report_id, queue, cpc, bg, rid, updates, resp>>

\* ------------------------------------------------------------------------
\* The comprehensive engine (app/services/comprehensive_store_report_service.py)
\* Its helpers, poll loading, spans and sweep are line for line those of
\* compute_Algo.py; its store list, defaults, business hours and save differ.
\* ------------------------------------------------------------------------
\* _get_all_unique_store_ids: the ids of the three tables
AllUniqueStoreIds(tables) ==
    {r.store_id : r \in tables.store_status} \cup {r.store_id : r \in tables.timezones}
    \cup {r.store_id : r \in tables.menu_hours}

\* _get_timezone_for_store: LIMIT 1 of the store's rows, any of them
TimezonesForStore(tables, store_id) ==
    LET zs == {t.timezone_str : t \in {x \in tables.timezones : x.store_id = store_id}}
    IN IF zs = {} THEN {"America/Chicago"} ELSE zs

\* for store_id in all_store_ids: a Python set, in any order; each with the
\* zone _normalize_store_data reads for it.
ComprehensiveStoreLists(tables) ==
    LET ids == AllUniqueStoreIds(tables)
        len == Cardinality(ids)
    IN {q \in [1..len -> UNION {{<<id, z>> : z \in TimezonesForStore(tables, id)} : id \in ids}] :
           \A i, j \in 1..len : q[i][1] = q[j][1] => i = j}

\* _get_menu_hours_for_store: the rows, or 00:00:00-23:59:59 for each day
MenuHoursForStore(tbl, store_id) ==
    LET sched == {r \in tbl : r.store_id = store_id}
    IN IF sched = {} THEN AllDay(store_id) ELSE sched

\* The segments of one entry on the local date cursor, lines 395-423: kept
\* only when 1 <= a_idx < b_idx <= 10081.
EntryIntervals(row, cursor, off, now_local) ==
    LET s == ParseTime(row.start)
        e == ParseTime(row.end)
        segs == IF e <= s
                THEN {<<Combine(cursor, s, off), Combine(cursor + 1, 0, off)>>,
                      <<Combine(cursor + 1, 0, off), Combine(cursor + 1, e, off)>>}
                ELSE {<<Combine(cursor, s, off), Combine(cursor, e, off)>>}
        Kept(g) == LET k_end == Idx(CeilMin(g[2], off), now_local)
                       k_start == Idx(FloorMin(g[1], off), now_local)
                       a_idx == Min(k_end, k_start)
                       b_idx == Max(k_end, k_start)
                   IN IF 1 <= a_idx /\ a_idx < b_idx /\ b_idx <= 10081
                      THEN {<<a_idx, b_idx>>} ELSE {}
    IN UNION {Kept(g) : g \in segs}

\* _build_bh_intervals_from_data: the local midnights day0 - 8 .. day0 + 1
BuildBhIntervalsFromData(business_hours, off, now_local) ==
    LET day0 == LocalDate(now_local, off)
        OnDate(cursor) == UNION {EntryIntervals(r, cursor, off, now_local) :
                                   r \in {q \in business_hours : q.day = Weekday(cursor)}}
    IN Merge(SortPairs(UNION {OnDate(cursor) : cursor \in (day0 - 8)..(day0 + 1)}))

\* _process_store_with_minute_index
ProcessStoreWithMinuteIndex(tables, store_id, tz_str, now_utc) ==
    LET off == TzOffset(tz_str)
        now_local == FloorMin(now_utc, off)
        polls == LoadPolls(tables.store_status, store_id, off, now_local)
        bh == BuildBhIntervalsFromData(MenuHoursForStore(tables.menu_hours, store_id),
                                       off, now_local)
        B == [X \in Bands |-> Sum([i \in 1..Len(bh) |-> Overlap(bh[i], Band(X))])]
        spans == Spans(polls, W)
        raw == Sweep(bh, spans)
        U == [X \in Bands |-> Clamp(raw[X], 0, B[X])]
        Dn == [X \in Bands |-> Downtime(B[X], U[X])]
    IN IF polls = <<>> THEN NoRow
       ELSE [store_id |-> store_id, timezone |-> tz_str, now_s |-> now_local,
             B |-> B, U |-> U, Dn |-> Dn]

\* report_data.sort(key=store_id)
RECURSIVE SortByStoreId(_)
SortByStoreId(rs) ==
    IF rs = <<>> THEN <<>>
    ELSE LET i == CHOOSE i \in 1..Len(rs) :
                    \A j \in 1..Len(rs) : rs[i].store_id < rs[j].store_id
                                          \/ (rs[i].store_id = rs[j].store_id /\ i <= j)
         IN <<rs[i]>> \o SortByStoreId(SubSeq(rs, 1, i - 1) \o SubSeq(rs, i + 1, Len(rs)))

\* report_data as written by json.dump: day and week values are minutes / 60
JsonFile(rs) ==
    [i \in 1..Len(rs) |-> [store_id |-> rs[i].store_id,
                           uptime |-> <<rs[i].U["H"], rs[i].U["D"], rs[i].U["W"]>>,
                           downtime |-> <<rs[i].Dn["H"], rs[i].Dn["D"], rs[i].Dn["W"]>>]]

ComprehensiveStores ==
    /\ engine = "comprehensive"
    /\ epc = "stores"
    /\ \E q \in ComprehensiveStoreLists(db) : stores' = q
    /\ pos' = 1
    /\ epc' = "loop"
    /\ UNCHANGED <<loc, db, engine, max_utc, rows, skipped, result, limit>>
    /\ UNCHANGED jvars

\* The loop body of generate_comprehensive_report, lines 59-77
ComprehensiveProcStore ==
    /\ engine = "comprehensive"
    /\ epc = "loop"
    /\ pos <= Len(stores)
    /\ \E raised \in BOOLEAN :
         LET r == ProcessStoreWithMinuteIndex(db, stores[pos][1], stores[pos][2], max_utc)
         IN /\ rows' = IF ~raised /\ r # NoRow THEN Append(rows, r) ELSE rows
            /\ skipped' = IF raised THEN skipped \cup {pos} ELSE skipped
    /\ pos' = pos + 1
    /\ UNCHANGED <<loc, db, engine, epc, max_utc, stores, result, limit>>
    /\ UNCHANGED jvars

\* _save_comprehensive_report and the return
ComprehensiveSave ==
    /\ engine = "comprehensive"
    /\ epc = "loop"
    /\ pos > Len(stores)
    /\ \E ok \in BOOLEAN :
         result' = IF ok THEN [returned |-> TRUE, success |-> TRUE,
                               file |-> JsonFile(SortByStoreId(rows))]
                   ELSE Failure
    /\ epc' = "returned"
    /\ UNCHANGED <<loc, db, engine, max_utc, stores, pos, rows, skipped, limit>>
    /\ UNCHANGED jvars

\* ReportService.generate_actual_store_report after the engine returned:
\* set_report_status_and_url COMPLETE with the file url, or FAILED.
ComprehensiveUrl(id) == MkUrl(FileScheme, ReportsSlash, <<ToString(id), "_comprehensive">>, DotJson)
GenerateActualStoreReportFinish ==
    /\ engine = "comprehensive"
    /\ epc = "returned"
    /\ \E ok \in BOOLEAN :
         LET status == IF result.success THEN "COMPLETE" ELSE "FAILED"
             url == IF result.success THEN ComprehensiveUrl(1) ELSE NoUrl
         IN /\ reports' = CrudSetReportStatusAndUrl(reports, 1, status, url, ok)
            /\ current_report_id' =
                 IF ok THEN JsonAfterUpdate(current_report_id, reports, 1, status)
                 ELSE current_report_id
    /\ epc' = "idle"
    /\ UNCHANGED <<loc, db, engine, max_utc, stores, pos, rows, skipped, result, limit>>
    /\ UNCHANGED <<queue, cpc, bg, rpc, rid, updates, resp>>

\* A run that has reached the engine call for report 1, over any of the
\* databases: generate_report with the minute-index engine, or
\* compute_store_reports.py with the comprehensive one.
EngineInit ==
    /\ reports = [id \in ReportIds |-> IF id = 1 THEN Row("RUNNING", NoUrl) ELSE AbsentRow]
    /\ current_report_id = 1
    /\ queue = {}
    /\ cpc = [c \in Callers |-> "idle"]
    /\ bg = [id \in ReportIds |-> "none"]
    /\ engine \in {"minute_index", "comprehensive"}
    /\ rpc = [r \in Runs |-> IF r = 1 /\ engine = "minute_index" THEN "engine" ELSE "waiting"]
    /\ rid = [r \in Runs |-> IF r = 1 /\ engine = "minute_index" THEN 1 ELSE NoId]
    /\ updates = 0
    /\ resp = NoResp
    /\ db \in Databases
    /\ epc = "called"
    /\ max_utc = 0
    /\ stores = <<>>
    /\ pos = 1
    /\ rows = <<>>
    /\ skipped = {}
    /\ result = NoResult
    /\ limit = "none"
    /\ loc = NoLoc

EngineNext ==
    \/ EngineMaxUtc
    \/ EngineStores
    \/ EngineProcStore
    \/ EngineSave
    \/ EngineReturn
    \/ \E r \in Runs : GenerateReportFinish(r)
    \/ ComprehensiveStores
    \/ ComprehensiveProcStore
    \/ ComprehensiveSave
    \/ GenerateActualStoreReportFinish

EngineSpec == EngineInit /\ [][EngineNext]_vars

\* ------------------------------------------------------------------------
\* Time limits of the worker (app/celery_app.py, lines 18-19)
\* ------------------------------------------------------------------------
\* The run of generate_report is still executing.
RunInProgress(r) == rpc[r] \in {"engine", "succeeded", "failed", "raised"}

\* task_soft_time_limit = 25 * 60: SoftTimeLimitExceeded, an Exception, is
\* raised in the task wherever it is.  Inside _proc_store the per-store
\* except takes it and the loop continues (in_proc_store; the loop is also
\* outside that try between two stores); elsewhere in generate_store_report
\* the outer except returns success False; in the task itself the except
\* branch of generate_report takes it.
SoftTimeLimit ==
    /\ limit = "none"
    /\ \E r \in Runs, in_proc_store \in BOOLEAN :
         /\ RunInProgress(r)
         /\ IF rpc[r] = "engine" /\ epc = "loop" /\ pos <= Len(stores) /\ in_proc_store
            THEN /\ skipped' = skipped \cup {pos}
                 /\ pos' = pos + 1
                 /\ UNCHANGED <<rpc, epc, result>>
            ELSE IF rpc[r] = "engine" /\ epc \in {"called", "stores", "loop"}
            THEN /\ result' = Failure
                 /\ epc' = "returned"
                 /\ UNCHANGED <<rpc, pos, skipped>>
            ELSE /\ rpc' = [rpc EXCEPT ![r] = "raised"]
                 /\ epc' = "idle"
                 /\ UNCHANGED <<result, pos, skipped>>
    /\ limit' = "soft"
    /\ UNCHANGED <<loc, db, engine, max_utc, stores, rows>>
    /\ UNCHANGED <<reports, current_report_id, queue, cpc, bg, rid, updates, resp>>

\* task_time_limit = 30 * 60: the pool process of a run that is still
\* executing after the soft limit is killed; no handler of the task runs.
HardTimeLimit ==
    /\ limit = "soft"
    /\ \E r \in Runs :
         /\ RunInProgress(r)
         /\ rpc' = [rpc EXCEPT ![r] = "killed"]
    /\ limit' = "hard"
    /\ UNCHANGED <<loc, db, engine, epc, max_utc, stores, pos, rows, skipped, result>>
    /\ UNCHANGED <<reports, current_report_id, queue, cpc, bg, rid, updates, resp>>

\* A worker run of the minute-index engine under the time limits, over the
\* databases without schedule rows.
TimedInit ==
    /\ EngineInit
    /\ engine = "minute_index"
    /\ db.menu_hours = {}

TimedNext ==
    \/ EngineMaxUtc
    \/ EngineStores
    \/ EngineProcStore
    \/ EngineSave
    \/ EngineReturn
    \/ \E r \in Runs : GenerateReportFinish(r)
    \/ SoftTimeLimit
    \/ HardTimeLimit

TimedSpec == TimedInit /\ [][TimedNext]_vars


\* ------------------------------------------------------------------------
\* The url translation on stored references
\* ------------------------------------------------------------------------
\* Stored urls: a scheme (or none), directories, a file name and an
\* extension (or none).
HttpScheme == <<"http:", "/", "/">>
UrlSchemes == {FileScheme, HttpScheme, <<>>}
UrlDirsUnderReports ==
    {ReportsSlash, <<"/", "srv", "/">> \o ReportsSlash, ReportsSlash \o ReportsSlash}
UrlDirs ==
    UrlDirsUnderReports \cup
        {<<"/", "srv", "/">>, ReportsSlash \o <<"old", "/">>, <<"/", "my">> \o ReportsSlash}
UrlNames == {<<"1">>, <<"1", "_comprehensive">>, <<"1", ".json">>}
UrlExts == {DotCsv, DotJson, <<".txt">>, <<>>}
StoredUrls ==
    {NoUrl} \cup {MkUrl(s, d, n, e) : s \in UrlSchemes, d \in UrlDirs, n \in UrlNames, e \in UrlExts}

\* ReportService.get_report_with_url_logic(report_id), called directly
GetReportWithUrlLogicCall(id) ==
    /\ resp.op = "none"
    /\ resp' = IF Exists(id)
               THEN [op |-> "get_report_with_url_logic", code |-> 0, report_id |-> id,
                     result |-> GetReportWithUrlLogic(reports[id]).status,
                     url |-> GetReportWithUrlLogic(reports[id]).url]
               ELSE Resp("get_report_with_url_logic", 0, id, "NOT_FOUND")
    /\ UNCHANGED <<reports, current_report_id, queue, cpc, bg, rpc, rid, updates>>
    /\ UNCHANGED evars

\* UrlResolver.to_public(url) on the url of a stored report
ToPublicCall(id) ==
    /\ resp.op = "none"
    /\ Exists(id)
    /\ resp' = [op |-> "to_public", code |-> 0, report_id |-> id,
                result |-> "none", url |-> ToPublic(reports[id].url)]
    /\ UNCHANGED <<reports, current_report_id, queue, cpc, bg, rpc, rid, updates>>
    /\ UNCHANGED evars

\* One stored report of any status and url, then one translation.
UrlInit ==
    /\ \E s \in Statuses, u \in StoredUrls :
         reports = [id \in ReportIds |-> IF id = 1 THEN Row(s, u) ELSE AbsentRow]
    /\ current_report_id = NoId
    /\ queue = {}
    /\ cpc = [c \in Callers |-> "idle"]
    /\ bg = [id \in ReportIds |-> "none"]
    /\ rpc = [r \in Runs |-> "waiting"]
    /\ rid = [r \in Runs |-> NoId]
    /\ updates = 0
    /\ resp = NoResp
    /\ EngineIdle

UrlNext ==
    \/ \E id \in ReportIds : GetReportWithUrlLogicCall(id)
    \/ \E id \in ReportIds : ToPublicCall(id)

UrlSpec == UrlInit /\ [][UrlNext]_vars


\* ------------------------------------------------------------------------
\* Localization of a naive wall time (_tzloc, _localize_safe)
\* ------------------------------------------------------------------------
\* A zone with daylight saving: the offsets of standard and summer time and
\* the instants of the two transitions of the year.  America/Chicago goes
\* from UTC-6 to UTC-5 on a Sunday at 02:00 local and back 34 weeks later at
\* 02:00 local; the other zones drawn have no transition.  A naive wall time
\* is the number of seconds its clock shows since the epoch.
SpringSunday == 6 * DaySeconds
FallSunday == SpringSunday + 34 * 7 * DaySeconds
TzRules(tz_str) ==
    IF tz_str = "America/Chicago"
    THEN [std |-> -21600, dst |-> -18000,
          spring |-> SpringSunday + 2 * 3600 + 21600,
          fall |-> FallSunday + 2 * 3600 + 18000]
    ELSE [std |-> TzOffset(tz_str), dst |-> TzOffset(tz_str), spring |-> 0, fall |-> 0]

\* The offset in force at an instant, and whether it is summer time
IsDst(z, u) == z.spring <= u /\ u < z.fall
OffsetAt(z, u) == IF IsDst(z, u) THEN z.dst ELSE z.std

\* The instants at which the clock of the zone shows the wall time: none in
\* the hour skipped in spring, two in the hour repeated in autumn.
Instants(z, wall) == {u \in {wall - z.std, wall - z.dst} : u + OffsetAt(z, u) = wall}

\* tz.localize(dt, is_dst=None): the instant, or the error pytz raises
LocalizeStrict(z, wall) ==
    LET us == Instants(z, wall)
    IN IF us = {} THEN [raised |-> "NonExistentTimeError", instant |-> 0]
       ELSE IF Cardinality(us) > 1 THEN [raised |-> "AmbiguousTimeError", instant |-> 0]
       ELSE [raised |-> "none", instant |-> CHOOSE u \in us : TRUE]

\* tz.localize(dt, is_dst=True): of two instants the one in summer time; a
\* wall time that does not exist is read with the summer offset.
LocalizeDst(z, wall) ==
    LET us == Instants(z, wall)
    IN IF us = {} THEN wall - z.dst
       ELSE IF \E u \in us : IsDst(z, u) THEN CHOOSE u \in us : IsDst(z, u)
       ELSE CHOOSE u \in us : TRUE

\* _tzloc and _localize_safe: the strict reading, is_dst=True when it is
\* ambiguous, one hour later with is_dst=True when it does not exist.
Tzloc(z, wall) ==
    LET strict == LocalizeStrict(z, wall)
    IN IF strict.raised = "AmbiguousTimeError" THEN LocalizeDst(z, wall)
       ELSE IF strict.raised = "NonExistentTimeError" THEN LocalizeDst(z, wall + 3600)
       ELSE strict.instant

\* The wall times drawn: every quarter of an hour from 00:00 to 04:00, and
\* the last second of each hour, on the two Sundays of the transitions.
LocZones == {"America/Chicago", "Asia/Kolkata", "UTC"}
WallTimes ==
    {d + q * 900 : d \in {SpringSunday, FallSunday}, q \in 0..16}
        \cup {d + h * 3600 - 1 : d \in {SpringSunday, FallSunday}, h \in 1..4}

\* _tzloc(tz, dt) of the minute-index engine
TzlocCall ==
    /\ loc.by = "none"
    /\ loc' = [loc EXCEPT !.by = "_tzloc", !.out = Tzloc(TzRules(loc.tz), loc.wall)]
    /\ UNCHANGED jvars
    /\ UNCHANGED <<db, engine, epc, max_utc, stores, pos, rows, skipped, result, limit>>

\* _localize_safe(tz, dt) of the comprehensive engine
LocalizeSafeCall ==
    /\ loc.by = "none"
    /\ loc' = [loc EXCEPT !.by = "_localize_safe", !.out = Tzloc(TzRules(loc.tz), loc.wall)]
    /\ UNCHANGED jvars
    /\ UNCHANGED <<db, engine, epc, max_utc, stores, pos, rows, skipped, result, limit>>

\* One zone and one naive wall time, then one localization.
LocInit ==
    /\ reports = [id \in ReportIds |-> AbsentRow]
    /\ current_report_id = NoId
    /\ queue = {}
    /\ cpc = [c \in Callers |-> "idle"]
    /\ bg = [id \in ReportIds |-> "none"]
    /\ rpc = [r \in Runs |-> "waiting"]
    /\ rid = [r \in Runs |-> NoId]
    /\ updates = 0
    /\ resp = NoResp
    /\ db = EmptyDb
    /\ engine = "minute_index"
    /\ epc = "idle"
    /\ max_utc = 0
    /\ stores = <<>>
    /\ pos = 1
    /\ rows = <<>>
    /\ skipped = {}
    /\ result = NoResult
    /\ limit = "none"
    /\ \E tz \in LocZones, wall \in WallTimes :
         loc = [tz |-> tz, wall |-> wall, by |-> "none", out |-> 0]

LocNext == TzlocCall \/ LocalizeSafeCall

LocSpec == LocInit /\ [][LocNext]_vars


\* ------------------------------------------------------------------------
\* The system
\* ------------------------------------------------------------------------
\* The layered server (app/main_rcs.py) with its Celery worker
Next ==
    \/ ControllerTriggerReport
    \/ \E c \in Callers : CreateNewReportValidate(c)
    \/ \E c \in Callers : CreateNewReportInsert(c)
    \/ \E id \in ReportIds : Publish(id)
    \/ \E r \in Runs, id \in ReportIds : GenerateReportStart(r, id)
    \/ \E r \in Runs : GenerateReportSetRunning(r)
    \/ \E r \in Runs : GenerateReportEngine(r)
    \/ \E r \in Runs : GenerateReportFinish(r)
    \/ \E id \in ReportIds, s \in RequestStatuses : UpdateReportStatus(id, s)
    \/ \E id \in ReportIds, s \in RequestStatuses, u \in ClientUrls :
           SetReportStatusAndUrl(id, s, u)

Spec == Init /\ [][Next]_vars

\* The legacy server (main.py), a program of its own on the same table
LegacyNext ==
    \/ TriggerReportLegacy
    \/ \E id \in ReportIds : BackgroundRunning(id)
    \/ \E id \in ReportIds : BackgroundComplete(id)
    \/ \E id \in ReportIds : BackgroundFailed(id)
    \/ \E id \in ReportIds : GetReportLegacy(id)

LegacySpec == Init /\ [][LegacyNext]_vars

\* One step of worker process r: take a delivery, or the next step of the run.
WorkerStep(r) ==
    \/ \E id \in ReportIds : GenerateReportStart(r, id)
    \/ GenerateReportSetRunning(r)
    \/ GenerateReportEngine(r)
    \/ GenerateReportFinish(r)
    \/ WorkerReady(r)

\* Report creation, the broker and worker processes that loop, with no
\* status-update request from a client.
FairNext ==
    \/ \E c \in Callers : CreateNewReportValidate(c)
    \/ \E c \in Callers : CreateNewReportInsert(c)
    \/ \E id \in ReportIds : Publish(id)
    \/ \E r \in Runs : WorkerStep(r)

FairSpec == Init /\ [][FairNext]_vars /\ \A r \in Runs : WF_vars(WorkerStep(r))

\* ------------------------------------------------------------------------
\* Claims
\* ------------------------------------------------------------------------
\* C1: every status change of a record follows Pending -> Running ->
\* {Complete, Failed}: no reverse transition, none out of Complete or Failed.
StepAllowed(s, t) ==
    \/ s = t
    \/ <<s, t>> \in {<<Absent, "PENDING">>, <<"PENDING", "RUNNING">>,
                     <<"RUNNING", "COMPLETE">>, <<"RUNNING", "FAILED">>}

C1_LifecycleMonotonic ==
    [][\A id \in ReportIds : StepAllowed(reports[id].status, reports'[id].status)]_vars

\* C2: there are never two records that are both Pending or Running.
C2_SingleActive == Cardinality(ActiveIds) <= 1

\* C3: a trigger call answered while a Pending or Running record exists (the
\* controller's call, or a create_new_report call that found one) names that
\* record's id, creates no record and enqueues nothing.
TriggerObservedActive ==
    /\ resp' # resp
    /\ \/ resp'.op = "controller" /\ ActiveIds # {}
       \/ resp'.op = "service" /\ resp'.result = "blocked"

C3_IdempotentTrigger ==
    [][TriggerObservedActive =>
          /\ resp'.report_id = CrudGetLatestPendingReport(reports, TRUE)
          /\ reports' = reports
          /\ queue' = queue]_vars

\* C4: a trigger call made while no record is Pending or Running creates
\* exactly one record, Pending, enqueues one work item carrying its id and
\* answers 202 with that id.
CreatedIds == {id \in ReportIds : reports[id].status = Absent /\ reports'[id].status # Absent}

C4_TriggerCreates ==
    [][(resp' # resp /\ resp'.op = "controller" /\ ActiveIds = {}) =>
          /\ Cardinality(CreatedIds) = 1
          /\ \A id \in CreatedIds :
                /\ reports'[id].status = "PENDING"
                /\ queue' = queue \cup {id}
                /\ resp'.report_id = id
          /\ resp'.code = 202]_vars

\* C5: under a fairly scheduled worker tier every existing report eventually
\* is Complete or Failed.
C5_EventuallyTerminal ==
    \A id \in ReportIds : Exists(id) ~> IsTerminal(id)

\* C6: with deliveries only (no status-update request so far), once a record
\* is Complete or Failed a step of a worker run for it leaves its status and
\* url as they are: a further delivery changes nothing.
C6_RedeliveryIdempotent ==
    [][\A r \in Runs :
          (updates = 0 /\ rpc'[r] # rpc[r] /\ rpc[r] # "waiting" /\ IsTerminal(rid[r]))
              => reports'[rid[r]] = reports[rid[r]]]_vars

\* C7: a run started for a record that is Complete or Failed returns at once,
\* without reaching the engine, and the table is unchanged.
C7_TerminalShortCircuit ==
    [][\A r \in Runs :
          (rpc[r] = "waiting" /\ rpc'[r] # "waiting" /\ IsTerminal(rid'[r]))
              => /\ rpc'[r] \in {"skipped", "not_found"}
                 /\ reports' = reports]_vars

\* C7 witness: a run returned at once for a terminal record.
C7_Witness == \E r \in Runs : rpc[r] = "skipped" /\ IsTerminal(rid[r])

\* C8: every Complete record carries an artifact reference.
C8_CompleteHasUrl ==
    \A id \in ReportIds : reports[id].status = "COMPLETE" => reports[id].url # NoUrl

\* C9: a run whose engine failed or raised leaves the record Failed when it
\* ends.
C9_FailedOnError ==
    [][\A r \in Runs :
          (rpc[r] \in {"failed", "raised"} /\ rpc'[r] = "returned")
              => reports'[rid[r]].status = "FAILED"]_vars

\* C10: get_status answers "Running" without url for Pending and Running,
\* "Failed" without url for Failed, "Complete" with the translated public url
\* for Complete, on both servers.
ClaimedStatus(row) ==
    [status |-> IF row.status \in {"PENDING", "RUNNING"} THEN "Running"
                ELSE IF row.status = "FAILED" THEN "Failed" ELSE "Complete",
     url |-> IF row.status = "COMPLETE" THEN ExposedUrl(row.url) ELSE NoUrl]

C10_StatusMapping ==
    \A id \in ReportIds :
        Exists(id) =>
            /\ GetReportWithUrlLogic(reports[id]) = ClaimedStatus(reports[id])
            /\ ControllerGetReportStatus(reports[id]) = ClaimedStatus(reports[id])
            /\ LET r == LegacyGetReportOf(reports[id], id)
               IN [status |-> r.result, url |-> r.url] = ClaimedStatus(reports[id])

\* C11: in every row either engine has built, uptime + downtime equals the
\* business-hours budget in each band H, D, W, in minutes before the
\* conversion to hours.
C11_CoverageIdentity ==
    \A i \in 1..Len(rows) : \A X \in Bands :
        rows[i].U[X] + rows[i].Dn[X] = rows[i].B[X]

\* A row with both uptime and downtime in the week band has been built.
C11_Witness ==
    \E i \in 1..Len(rows) : rows[i].U["W"] > 0 /\ rows[i].Dn["W"] > 0

\* The tables of one store in UTC, open 24x7 (no schedule rows), polled
\* "active" every 10 minutes over the 10,080 minutes up to Monday noon.
FullWeek24x7 == Db(WeekOfPolls(1, MondayNoon, "active"), {}, {TzRow(1, "UTC")})

\* C12: the minute-index engine's csv line for a 24x7 store with a full week
\* of active polls has uptime 60 minutes, 24.00 hours and 168.00 hours, and
\* downtime 0 in the three bands.
C12_FullWeekAllActive ==
    (db = FullWeek24x7 /\ engine = "minute_index" /\ result.success) =>
        /\ Len(result.file) = 1
        /\ result.file[1].uptime = <<60, 2400, 16800>>
        /\ result.file[1].downtime = <<0, 0, 0>>

\* The normalized polls of a store whose minute index lies in the week window
InWindowPolls(tables, store_id, tz_str, now_utc) ==
    LET off == TzOffset(tz_str)
    IN SelectSeq(LoadPolls(tables.store_status, store_id, off, FloorMin(now_utc, off)),
                 LAMBDA p : W[1] <= p[1] /\ p[1] < W[2])

\* C13: a store with no poll in the week window [1, 10081) has no row,
\* whether or not it has polls in the buffer before the window.
C13_NoInWindowPollNoRow ==
    \A i \in 1..Len(rows) :
        InWindowPolls(db, rows[i].store_id, rows[i].timezone, max_utc) # <<>>

\* The business-hours intervals the engine of the run builds for a store
BhOfRun(store_id, tz_str) ==
    LET off == TzOffset(tz_str)
        now_local == FloorMin(max_utc, off)
    IN IF engine = "minute_index"
       THEN BuildBh(db.menu_hours, store_id, off, now_local)
       ELSE BuildBhIntervalsFromData(MenuHoursForStore(db.menu_hours, store_id), off, now_local)

\* C14: for a store without schedule rows the business-hours intervals are
\* the single interval [1, 10081) and the week budget is 10080 minutes,
\* whichever engine runs and whatever the anchor.
C14_MissingScheduleIs24x7 ==
    \A i \in 1..Len(rows) :
        {r \in db.menu_hours : r.store_id = rows[i].store_id} = {} =>
            /\ BhOfRun(rows[i].store_id, rows[i].timezone) = <<W>>
            /\ rows[i].B["W"] = 10080

\* The store of FullWeek24x7 with the schedule 22:00:00-02:00:00 every day
FullWeekOvernight == Db(WeekOfPolls(1, MondayNoon, "active"), Overnight(1), {TzRow(1, "UTC")})

\* The index intervals of [start, next midnight) and [next midnight, end on
\* the next day) for a schedule row on the local date cur
SplitAtMidnight(row, cur, off, now_local) ==
    LET start == Combine(cur, ParseTime(row.start), off)
        midnight == Combine(cur + 1, 0, off)
        end == Combine(cur + 1, ParseTime(row.end), off)
        Image(lo, hi) == LET a == Idx(CeilMin(hi, off), now_local)
                             b == Idx(FloorMin(lo, off), now_local)
                         IN IF a < b THEN {<<a, b>>} ELSE {}
    IN Image(start, midnight) \cup Image(midnight, end)

\* C15: for the store of each row it builds, the minute-index engine splits
\* a schedule entry with end <= start at local midnight into (start, next
\* midnight) and (next midnight, end on the next day); with 22:00-02:00 every day, polls all active and the anchor at
\* 12:00 the day budget is 240 minutes and uptime_last_day is 4.00 hours.
C15_OvernightSplit ==
    engine = "minute_index" =>
        /\ (epc = "loop" /\ rows # <<>>) =>
             LET new == rows[Len(rows)]
                 off == TzOffset(new.timezone)
                 now_local == FloorMin(max_utc, off)
             IN \A cur \in (LocalDate(now_local, off) - 9)..(LocalDate(now_local, off) + 1) :
                  \A r \in {q \in db.menu_hours : /\ q.store_id = new.store_id
                                                   /\ q.day = Weekday(cur)
                                                   /\ ParseTime(q.end) <= ParseTime(q.start)} :
                     RowIntervals(r, cur, off, now_local) = SplitAtMidnight(r, cur, off, now_local)
        /\ db = FullWeekOvernight =>
             /\ \A i \in 1..Len(rows) : rows[i].B["D"] = 240
             /\ \A i \in 1..Len(result.file) : result.file[i].uptime[2] = 400

\* The report of the 22:00-02:00 store has been written.
C15_Witness ==
    /\ db = FullWeekOvernight
    /\ engine = "minute_index"
    /\ result.success
    /\ Len(result.file) = 1

\* C16: no store id appears in more than one row of a written report,
\* whatever the timezone and schedule tables hold.
C16_OneRowPerStore ==
    \A i, j \in 1..Len(result.file) :
        result.file[i].store_id = result.file[j].store_id => i = j

\* C17: the rows of a written report are in ascending order of store_id.
C17_SortedByStoreId ==
    \A i, j \in 1..Len(result.file) :
        i < j => result.file[i].store_id <= result.file[j].store_id

\* The row the engine of the run computes for entry i of the store list
RowOfEntry(i) ==
    IF engine = "minute_index"
    THEN ProcStore(db, stores[i][1], stores[i][2], max_utc)
    ELSE ProcessStoreWithMinuteIndex(db, stores[i][1], stores[i][2], max_utc)

\* The rows of the entries 1..n that did not raise, in list order
RECURSIVE RowsOfEntries(_, _)
RowsOfEntries(n, failed) ==
    IF n = 0 THEN <<>>
    ELSE LET before == RowsOfEntries(n - 1, failed)
         IN IF n \in failed \/ RowOfEntry(n) = NoRow THEN before
            ELSE Append(before, RowOfEntry(n))

\* C18: when processing a store raises, the loop goes on to the next store
\* with the rows built so far and the run has not failed; a report that is
\* then written holds the row of every store that did not raise and none of
\* a store that did.
C18_StoreErrorIsolated ==
    [][/\ skipped' # skipped =>
            /\ rows' = rows
            /\ epc' = "loop"
            /\ pos' = pos + 1
            /\ result' = result
       /\ (result'.success /\ ~result.success) =>
            result'.file = IF engine = "minute_index"
                           THEN CsvFile(RowsOfEntries(Len(stores), skipped))
                           ELSE JsonFile(SortByStoreId(RowsOfEntries(Len(stores), skipped)))]_vars

\* A report with rows has been written by the minute-index engine after a
\* store raised.
C18_Witness ==
    /\ engine = "minute_index"
    /\ skipped # {}
    /\ result.success
    /\ Len(result.file) > 0

\* C19: in every row uptime, downtime and the business-hours budget each
\* grow from the hour band to the day band to the week band (in minutes).
C19_BandMonotone ==
    \A i \in 1..Len(rows) :
        /\ rows[i].U["H"] <= rows[i].U["D"] /\ rows[i].U["D"] <= rows[i].U["W"]
        /\ rows[i].Dn["H"] <= rows[i].Dn["D"] /\ rows[i].Dn["D"] <= rows[i].Dn["W"]
        /\ rows[i].B["H"] <= rows[i].B["D"] /\ rows[i].B["D"] <= rows[i].B["W"]

\* A row whose uptime and downtime both differ between the day and the week
\* band has been built.
C19_Witness ==
    \E i \in 1..Len(rows) :
        /\ 0 < rows[i].U["D"] /\ rows[i].U["D"] < rows[i].U["W"]
        /\ 0 < rows[i].Dn["D"] /\ rows[i].Dn["D"] < rows[i].Dn["W"]

\* C20: a run that passed a time limit does not complete its job, and a run
\* the hard limit terminated leaves its job Failed, not Running.
C20_TimeLimitFailsJob ==
    \A r \in Runs :
        rid[r] # NoId =>
            /\ (limit # "none" /\ rpc[r] = "returned") => reports[rid[r]].status # "COMPLETE"
            /\ rpc[r] = "killed" => reports[rid[r]].status = "FAILED"

\* C21: a translated reference file://.../reports/<name>.<ext> is
\* /files/reports/<name>.csv, and a translated reference that does not start
\* with file:// is the stored reference.
C21_TranslatedToCsv ==
    LET url == reports[1].url
        translated == \/ resp.op = "to_public"
                      \/ resp.op = "get_report_with_url_logic" /\ reports[1].status = "COMPLETE"
    IN translated /\ resp.report_id = 1 =>
        /\ \A d \in UrlDirsUnderReports, n \in UrlNames, e \in UrlExts \ {<<>>} :
               url = MkUrl(FileScheme, d, n, e) => resp.url = PublicUrl(n \o DotCsv)
        /\ ~StartsWith(url, FileScheme) => resp.url = url

\* The normalized polls and the status spans of the store of a row
PollsOfRow(r) == LoadPolls(db.store_status, r.store_id, TzOffset(r.timezone), r.now_s)
SpansOfRow(r) == Spans(PollsOfRow(r), W)

\* The spans, in list order, cover [w[1], w[2]) with no gap and no overlap
Tiles(spans, w) ==
    /\ spans # <<>>
    /\ spans[1][1] = w[1]
    /\ spans[Len(spans)][2] = w[2]
    /\ \A j \in 1..Len(spans) : spans[j][1] < spans[j][2]
    /\ \A j \in 1..(Len(spans) - 1) : spans[j][2] = spans[j + 1][1]

\* C22: the status spans of the store of every row an engine builds tile the
\* week window [1, 10081) with no gap, no overlap and nothing outside, and
\* each span is active or inactive.
C22_SpansTileWeek ==
    (epc = "loop" /\ rows # <<>>) =>
        LET spans == SpansOfRow(rows[Len(rows)])
        IN /\ Tiles(spans, W)
           /\ \A j \in 1..Len(spans) : spans[j][3] \in {"active", "inactive"}

\* The status the carry-forward rule gives minute index c: that of the
\* in-window poll with the smallest index above c, else the seed, which is
\* the status of the poll with the smallest index from 10080 on, else of the
\* in-window poll with the smallest index.
CarriedStatus(polls, c) ==
    LET all == {polls[i] : i \in 1..Len(polls)}
        win == {p \in all : W[1] <= p[1] /\ p[1] < W[2]}
        Nearest(ps) == CHOOSE p \in ps : \A q \in ps : p[1] <= q[1]
        older == {p \in win : p[1] > c}
        pre == {p \in all : p[1] >= W[2] - 1}
    IN IF older # {} THEN Nearest(older)[2]
       ELSE IF pre # {} THEN Nearest(pre)[2]
       ELSE IF win # {} THEN Nearest(win)[2]
       ELSE "inactive"

\* The minute indices at which a span or the carried status can change
ChangePoints(polls, spans) ==
    UNION {{polls[i][1], polls[i][1] - 1} : i \in 1..Len(polls)}
        \cup UNION {{spans[j][1], spans[j][2] - 1} : j \in 1..Len(spans)}

PreWindow(polls) == {p \in {polls[i] : i \in 1..Len(polls)} : p[1] >= W[2] - 1}
InWindow(polls) == {p \in {polls[i] : i \in 1..Len(polls)} : W[1] <= p[1] /\ p[1] < W[2]}

\* C24: for the store of every row an engine builds, the seed is the status
\* of the poll with the smallest k among those with k >= 10080 when there is
\* one, otherwise that of the in-window poll with the smallest k; it is the
\* status of the oldest span.
C24_SeedNearestBefore ==
    (epc = "loop" /\ rows # <<>>) =>
        LET polls == PollsOfRow(rows[Len(rows)])
            spans == SpansOfRow(rows[Len(rows)])
            seed == Seed(polls, W)
        IN /\ spans[Len(spans)][3] = seed
           /\ \A p \in PreWindow(polls) :
                 (\A q \in PreWindow(polls) : p[1] <= q[1]) => seed = p[2]
           /\ PreWindow(polls) = {} =>
                 \A p \in InWindow(polls) :
                     (\A q \in InWindow(polls) : p[1] <= q[1]) => seed = p[2]

\* A row of a store with two polls at or before the window start, of
\* different status, has been built.
C24_Witness ==
    /\ epc = "loop"
    /\ rows # <<>>
    /\ \E p, q \in PreWindow(PollsOfRow(rows[Len(rows)])) : p[1] < q[1] /\ p[2] # q[2]

\* The rows the query of _load_polls fetches for the store of a row
FetchedOfRow(r) ==
    Fetch(db.store_status, r.store_id, r.now_s - LoadMinutes * 60, r.now_s + 59)

\* Every fetched row twice: the rows of a table that holds each sample twice
Doubled(fetched) == [i \in 1..(2 * Len(fetched)) |-> fetched[(i + 1) \div 2]]

\* Samples strictly older than the sample p and of the same local minute,
\* at timestamps the store has no sample at
OlderInMinute(p, off) ==
    {[store_id |-> p.store_id, ts |-> t, status |-> s] :
        t \in {u \in {FloorMin(p.ts, off), p.ts - 1} :
                 /\ u < p.ts /\ FloorMin(u, off) = FloorMin(p.ts, off)
                 /\ \A q \in db.store_status : q.store_id = p.store_id => q.ts # u},
        s \in PollStatuses}

\* C25: for the store of every row an engine builds, the normalized polls
\* (and with them the row) are the same when every sample is held twice and
\* when a sample strictly older than a sample of the same minute is added;
\* the anchor is the same too, and each minute keeps its latest sample.
C25_DedupeKeepsLatest ==
    (epc = "loop" /\ rows # <<>>) =>
        LET new == rows[Len(rows)]
            off == TzOffset(new.timezone)
            fetched == FetchedOfRow(new)
            polls == PollsOfRow(new)
        IN /\ NormalizePolls(Doubled(fetched), off, new.now_s) = polls
           /\ \A i \in 1..Len(fetched) : \A x \in OlderInMinute(fetched[i], off) :
                 /\ LoadPolls(db.store_status \cup {x}, new.store_id, off, new.now_s) = polls
                 /\ MaxUtc(db.store_status \cup {x}) = max_utc
           /\ \A i, j \in 1..Len(fetched) :
                 (/\ MapStatus(fetched[i].status) # None
                  /\ MapStatus(fetched[j].status) # None
                  /\ FloorMin(fetched[i].ts, off) = FloorMin(fetched[j].ts, off)
                  /\ fetched[i].ts < fetched[j].ts) =>
                     \A n \in 1..Len(polls) :
                         polls[n][1] = Idx(FloorMin(fetched[i].ts, off), new.now_s) =>
                             polls[n][2] # MapStatus(fetched[i].status)
                                \/ MapStatus(fetched[i].status) = MapStatus(fetched[j].status)

\* A row of a store with two samples of different status in one minute has
\* been built.
C25_Witness ==
    /\ epc = "loop"
    /\ rows # <<>>
    /\ LET fetched == FetchedOfRow(rows[Len(rows)])
           off == TzOffset(rows[Len(rows)].timezone)
       IN \E i, j \in 1..Len(fetched) :
             /\ i < j
             /\ FloorMin(fetched[i].ts, off) = FloorMin(fetched[j].ts, off)
             /\ MapStatus(fetched[i].status) = "active"
             /\ MapStatus(fetched[j].status) = "inactive"
             /\ OlderInMinute(fetched[j], off) # {}

\* C26: the business-hours intervals built for the store of every row are
\* sorted ascending, pairwise disjoint with no two touching, and each lies
\* within [1, 10081).
C26_BhSortedDisjointInWeek ==
    (epc = "loop" /\ rows # <<>>) =>
        LET new == rows[Len(rows)]
            bh == BhOfRun(new.store_id, new.timezone)
        IN /\ \A i \in 1..Len(bh) : W[1] <= bh[i][1] /\ bh[i][1] < bh[i][2] /\ bh[i][2] <= W[2]
           /\ \A i \in 1..(Len(bh) - 1) : bh[i][2] < bh[i + 1][1]

\* The minute indices of band X that lie in an interval of bh and in an
\* active span, counted over every pair of an interval and a span
RECURSIVE PairCount(_, _, _, _)
PairCount(bh, spans, X, n) ==
    IF n = 0 THEN 0
    ELSE LET i == ((n - 1) \div Len(spans)) + 1
             j == ((n - 1) % Len(spans)) + 1
             lo == Max(Max(bh[i][1], spans[j][1]), Band(X)[1])
             hi == Min(Min(bh[i][2], spans[j][2]), Band(X)[2])
         IN PairCount(bh, spans, X, n - 1)
            + (IF spans[j][3] = "active" /\ lo < hi THEN hi - lo ELSE 0)
ExactCount(bh, spans, X) == PairCount(bh, spans, X, Len(bh) * Len(spans))

\* C27: for the intervals and spans of the store of every row, the sweep
\* returns in each band the number of minute indices that lie in a
\* business-hours interval and in an active span, which is the uptime of the
\* row; every step moves a pointer on (both when the current interval and
\* span end together) and the loop ends within |bh| + |spans| steps.
C27_SweepExact ==
    (epc = "loop" /\ rows # <<>>) =>
        LET new == rows[Len(rows)]
            bh == BhOfRun(new.store_id, new.timezone)
            spans == SpansOfRow(new)
        IN /\ \A X \in Bands : /\ Sweep(bh, spans)[X] = ExactCount(bh, spans, X)
                               /\ new.U[X] = ExactCount(bh, spans, X)
           /\ SweepSteps(bh, spans, 1, 1) <= Len(bh) + Len(spans)
           /\ \A i \in 1..Len(bh), j \in 1..Len(spans) :
                 LET n == SweepNext(bh, spans, i, j)
                 IN /\ n[1] \in {i, i + 1} /\ n[2] \in {j, j + 1}
                    /\ n # <<i, j>>
                    /\ bh[i][2] = spans[j][2] => n = <<i + 1, j + 1>>

\* The row of the Monday-shift store has been built: its first interval and
\* its first span both end at index 181, and the uptime of the week is the
\* 329 minutes of last Monday's shift that an active span covers.
C27_Witness ==
    /\ db = ShiftStartsAtPoll
    /\ epc = "loop"
    /\ rows # <<>>
    /\ BhOfRun(1, "UTC")[1][2] = SpansOfRow(rows[Len(rows)])[1][2]
    /\ rows[Len(rows)].U["W"] = 329
    /\ engine = "minute_index"

\* C28: a localized wall time that the zone shows twice is given the later
\* of its two instants, one the zone never shows is given the instant of the
\* wall time one hour later, and any other its only instant.
C28_DstSafeLocalize ==
    loc.by # "none" =>
        LET z == TzRules(loc.tz)
            us == Instants(z, loc.wall)
        IN /\ Cardinality(us) = 2 => \A u \in us : u <= loc.out
           /\ Cardinality(us) = 2 => loc.out \in us
           /\ us = {} => loc.out \in Instants(z, loc.wall + 3600)
           /\ Cardinality(us) = 1 => loc.out \in us

\* C29: the validation of create_new_report lets the creation go on to the
\* insert only when no record is PENDING or RUNNING: a lookup that fails
\* while such a record exists does not answer "can create".
C29_FailedLookupBlocksCreation ==
    [][\A c \in Callers :
          (cpc[c] = "idle" /\ cpc'[c] = "insert") => ActiveIds = {}]_vars

====
